---- MODULE Spec2Model ----
(***************************************************************************)
(* Local spatial bivariate statistics of liana:                            *)
(*   method/sp/_bivariate_funs.py  the weighted statistic engine           *)
(*   method/sp/_spatial_utils.py   proximity builder, permutation tester,  *)
(*                                 sign categories, function dispatch      *)
(*                                                                         *)
(* Matrices are sequences of rows.  Entity values and weights are small    *)
(* integers, so every float64 operation of the vectorized path is exact.   *)
(* A statistic is kept as an exact quotient (record Stat below) instead of *)
(* a rounded decimal, so that comparisons of statistics are exact.         *)
(***************************************************************************)
EXTENDS Integers, Sequences, FiniteSets, TLC

VARIABLES
    x_mat,      \* entity matrix x, spot_n rows of xy_n values
    y_mat,      \* entity matrix y, spot_n rows of xy_n values
    dist,       \* proximity weights, spot_n x spot_n
    out,        \* the last engine call: [fn, method, thr, val]
    perm,       \* the run of _local_permutation_pvals
    prox,       \* the AnnData object and the last get_spatial_proximity call
    sel,        \* the last _handle_functions call
    cat         \* the sign categories: encoded, combined, simplified

vars == <<x_mat, y_mat, dist, out, perm, prox, sel, cat>>

(* ------------------------------ bounds -------------------------------- *)

\* spots of the engine runs
NSpots == 3
\* entity pairs of the permutation runs
NPairs == 2
\* largest n_perm of the permutation runs
MaxPerm == 2
\* largest entity value of the engine runs
MaxVal == 1
\* largest proximity weight of the engine runs
MaxW == 1
\* significand width of the model's float32 (the program's is 24 bits): the
\* rounding rule is IEEE-754's, the width is reduced so that rounding
\* happens on small integers
MantBits == 4
\* the large entity value of the runs that make float32 products round
BigVal == 5

(* --------------------------- program constants ------------------------ *)

\* _vectorized_correlations: denominator[denominator < 1e-6] = 0
ClampInv == 1000000

(* ------------------------------ helpers ------------------------------- *)

RECURSIVE SumTo(_, _)
SumTo(f, n) == IF n = 0 THEN 0 ELSE f[n] + SumTo(f, n - 1)

\* sum() / np.sum of a vector
Sum(f) == SumTo(f, Len(f))

Abs(a) == IF a < 0 THEN -a ELSE a

RECURSIVE Pow2(_)
Pow2(n) == IF n = 0 THEN 1 ELSE 2 * Pow2(n - 1)

RECURSIVE BitLength(_)
BitLength(a) == IF a = 0 THEN 0 ELSE 1 + BitLength(a \div 2)

\* IEEE-754 rounding of an integer to bits significant bits: round to
\* nearest, ties to even.  Integers below 2^bits are exact.
RoundBits(v, bits) ==
    LET a == Abs(v)
        b == BitLength(a)
    IN  IF b <= bits THEN v
        ELSE LET q  == Pow2(b - bits)
                 lo == (a \div q) * q
                 r  == a - lo
                 up == IF 2 * r > q THEN TRUE
                       ELSE IF 2 * r < q THEN FALSE
                       ELSE ((lo \div q) % 2) = 1
                 m  == IF up THEN lo + q ELSE lo
             IN  IF v < 0 THEN -m ELSE m

\* a float32 result, at MantBits significant bits
Fl(v) == RoundBits(v, MantBits)

\* the largest r in lo..hi with r * r <= n, by bisection
RECURSIVE ISqrtIn(_, _, _)
ISqrtIn(n, lo, hi) ==
    IF lo >= hi THEN lo
    ELSE LET mid == (lo + hi + 1) \div 2
         IN  IF mid * mid <= n THEN ISqrtIn(n, mid, hi)
                               ELSE ISqrtIn(n, lo, mid - 1)

\* floor(sqrt(n)), for n below 2^30
ISqrt(n) == ISqrtIn(n, 0, 32767)

\* an ndarray holds every entry, computed once: the matrix as a sequence of
\* sequences of values
Eager(m) ==
    SubSeq([r \in DOMAIN m |-> SubSeq(m[r], 1, Len(m[r]))], 1, Len(m))

\* m.T
Transpose(m) ==
    Eager([c \in 1..Len(m[1]) |-> [r \in 1..Len(m) |-> m[r][c]]])

\* a.dot(b)
Dot(a, b) ==
    Eager([r \in 1..Len(a) |->
              [c \in 1..Len(b[1]) |->
                  Sum([k \in 1..Len(b) |-> a[r][k] * b[k][c]])]])

\* a * b, elementwise
Mul(a, b) ==
    Eager([r \in 1..Len(a) |-> [c \in 1..Len(a[1]) |-> a[r][c] * b[r][c]]])

\* a ** 2, elementwise
Sq(a) == Mul(a, a)

(* ----------------------------- statistics ----------------------------- *)

\* A statistic.  k = "sqrt":  n / sqrt(d + e*eps);  k = "ratio":
\* n / (d + e*eps);  k = "nan": not a number.  eps is float32's machine
\* epsilon (np.finfo(np.float32).eps), e is 0 or 1, n and d are integers.
\* f32 says that the value is cast to float32 on return.
Stat(k, n, d, e, f32) == [k |-> k, n |-> n, d |-> d, e |-> e, f32 |-> f32]

StatZero == Stat("sqrt", 0, 1, 0, FALSE)

StatNaN == Stat("nan", 0, 0, 0, FALSE)

\* what a call gives: a returned value, or the exception it raised
Return(v) == [err |-> "", val |-> v]

Raise(e) == [err |-> e, val |-> <<>>]

(* ------------------- _bivariate_funs.py: vectorized ------------------- *)

\* scipy.stats.rankdata(m, axis=1): the average rank of every value within
\* its row, in half units (the value held is 2 * rank)
RankData2(m) ==
    Eager([r \in 1..Len(m) |->
        [c \in 1..Len(m[r]) |->
            2 * Cardinality({k \in 1..Len(m[r]) : m[r][k] < m[r][c]})
              + Cardinality({k \in 1..Len(m[r]) : m[r][k] = m[r][c]}) + 1]])

\* np.sum(weight, axis=0)
ColSums(m) ==
    [c \in 1..Len(m[1]) |-> Sum([r \in 1..Len(m) |-> m[r][c]])]

\* np.clip(s, -1, 1)
Clip(s) ==
    IF s.k = "sqrt" /\ s.e = 0 /\ s.n * s.n > s.d
    THEN Stat("sqrt", IF s.n < 0 THEN -1 ELSE 1, 1, 0, s.f32)
    ELSE s

\* _vectorized_correlations(x_mat, y_mat, dist, method): ValueError, or the
\* xy_n x spot_n matrix of statistics.  u is the unit of the values (ranks
\* are held doubled), so the real denominator is denominator / u^4.
VectorizedCorrelations(x, y, d, method) ==
    IF method \notin {"pearson", "spearman"} THEN Raise("ValueError")
    ELSE
    LET weight      == Transpose(d)
        weight_sums == ColSums(weight)
        u           == IF method = "spearman" THEN 2 ELSE 1
        xm          == IF method = "spearman" THEN RankData2(Transpose(x))
                                              ELSE Transpose(x)
        ym          == IF method = "spearman" THEN RankData2(Transpose(y))
                                              ELSE Transpose(y)
        xyw         == Dot(Mul(xm, ym), weight)
        xw          == Dot(xm, weight)
        yw          == Dot(ym, weight)
        x2w         == Dot(Sq(xm), weight)
        y2w         == Dot(Sq(ym), weight)
        numerator(j, i) == xyw[j][i] * weight_sums[i] - xw[j][i] * yw[j][i]
        denominator_x(j, i) == weight_sums[i] * x2w[j][i] - xw[j][i] * xw[j][i]
        denominator_y(j, i) == weight_sums[i] * y2w[j][i] - yw[j][i] * yw[j][i]
        denominator(j, i) ==
            LET den == denominator_x(j, i) * denominator_y(j, i)
            IN  IF den < (u * u * u * u + ClampInv - 1) \div ClampInv
                THEN 0 ELSE den
    IN  Return([j \in 1..Len(xm) |->
            [i \in 1..Len(weight[1]) |->
                Clip(IF denominator(j, i) # 0
                     THEN Stat("sqrt", numerator(j, i), denominator(j, i), 0, FALSE)
                     ELSE StatZero)]])

\* _vectorized_wcosine(x_mat, y_mat, dist)
VectorizedWcosine(x, y, d) ==
    LET xm     == Transpose(x)
        ym     == Transpose(y)
        weight == Transpose(d)
        xy_dot == Dot(Mul(xm, ym), weight)
        x_dot  == Dot(Sq(xm), Transpose(weight))
        y_dot  == Dot(Sq(ym), Transpose(weight))
    IN  Return([j \in 1..Len(xm) |->
            [i \in 1..Len(weight[1]) |->
                Stat("sqrt", xy_dot[j][i], x_dot[j][i] * y_dot[j][i], 1, FALSE)]])

\* x_mat > 0, as 0/1
Binarize(m) ==
    Eager([r \in 1..Len(m) |->
              [c \in 1..Len(m[r]) |-> IF m[r][c] > 0 THEN 1 ELSE 0]])

\* np.minimum(a, b)
Minimum(a, b) ==
    Eager([r \in 1..Len(a) |->
        [c \in 1..Len(a[r]) |-> IF a[r][c] < b[r][c] THEN a[r][c] ELSE b[r][c]]])

\* np.maximum(a, b)
Maximum(a, b) ==
    Eager([r \in 1..Len(a) |->
        [c \in 1..Len(a[r]) |-> IF a[r][c] > b[r][c] THEN a[r][c] ELSE b[r][c]]])

\* _vectorized_jaccard with the epsilon left out of the denominator
VectorizedJaccardNoEps(x, y, d) ==
    LET xm          == Transpose(Binarize(x))
        ym          == Transpose(Binarize(y))
        weight      == Transpose(d)
        numerator   == Dot(Minimum(xm, ym), weight)
        denominator == Dot(Maximum(xm, ym), weight)
    IN  Return([j \in 1..Len(xm) |->
            [i \in 1..Len(weight[1]) |->
                IF denominator[j][i] = 0 THEN StatNaN
                ELSE Stat("ratio", numerator[j][i], denominator[j][i], 0, FALSE)]])

\* _vectorized_jaccard(x_mat, y_mat, dist)
VectorizedJaccard(x, y, d) ==
    LET xm          == Transpose(Binarize(x))
        ym          == Transpose(Binarize(y))
        weight      == Transpose(d)
        numerator   == Dot(Minimum(xm, ym), weight)
        denominator == Dot(Maximum(xm, ym), weight)
    IN  Return([j \in 1..Len(xm) |->
            [i \in 1..Len(weight[1]) |->
                Stat("ratio", numerator[j][i], denominator[j][i], 1, FALSE)]])

(* --------------------- _bivariate_funs.py: masked --------------------- *)

\* v[msk]: the entries of v kept by the boolean mask, in order
Mask(v, msk) ==
    LET idx == SelectSeq([k \in 1..Len(v) |-> k], LAMBDA k : msk[k])
    IN  [m \in 1..Len(idx) |-> v[idx[m]]]

\* np.argsort(v).argsort().astype(float32): 0-based ordinal ranks; for the
\* short vectors of a neighbourhood the sort is an insertion sort, so equal
\* values keep their order
ArgsortArgsort(v) ==
    [c \in 1..Len(v) |->
        Fl(Cardinality({k \in 1..Len(v) : v[k] < v[c]})
           + Cardinality({k \in 1..c - 1 : v[k] = v[c]}))]

\* _wcorr(x, y, w, wsum, rank): the elementwise products are float32 arrays,
\* sum() widens to float64, the result is cast to float32
Wcorr(x0, y0, w, wsum, rank) ==
    LET x  == IF rank THEN ArgsortArgsort(x0) ELSE x0
        y  == IF rank THEN ArgsortArgsort(y0) ELSE y0
        n  == Len(w)
        wx == [k \in 1..n |-> Fl(w[k] * x[k])]
        wy == [k \in 1..n |-> Fl(w[k] * y[k])]
        numerator == wsum * Sum([k \in 1..n |-> Fl(wx[k] * y[k])])
                     - Sum(wx) * Sum(wy)
        denominator_x == wsum * Sum([k \in 1..n |-> Fl(w[k] * Fl(x[k] * x[k]))])
                         - Sum(wx) * Sum(wx)
        denominator_y == wsum * Sum([k \in 1..n |-> Fl(w[k] * Fl(y[k] * y[k]))])
                         - Sum(wy) * Sum(wy)
        denominator == denominator_x * denominator_y
    IN  IF denominator = 0 \/ numerator = 0 THEN Stat("sqrt", 0, 1, 0, TRUE)
        ELSE IF denominator < 0 THEN Stat("nan", 0, 0, 0, TRUE)
        ELSE Stat("sqrt", numerator, denominator, 0, TRUE)

\* _wcoex(x, y, w, wsum, method)
Wcoex(x, y, w, wsum, method) ==
    IF method = 0 THEN Return(Wcorr(x, y, w, wsum, FALSE))
    ELSE IF method = 1 THEN Return(Wcorr(x, y, w, wsum, TRUE))
    ELSE Raise("ValueError")

\* _masked_coexpressions(x_mat, y_mat, weight, weight_thr, method):
\* the spot_n x xy_n matrix of statistics, or the error of a _wcoex call
MaskedCoexpressions(x, y, weight, weight_thr, method) ==
    LET spot_n == Len(x)
        xy_n   == Len(x[1])
        cell(i, j) ==
            LET w    == weight[i]
                msk  == [k \in 1..Len(w) |-> w[k] > weight_thr]
                wsum == Fl(Sum(Mask(w, msk)))
                xc   == [k \in 1..spot_n |-> x[k][j]]
                yc   == [k \in 1..spot_n |-> y[k][j]]
            IN  Wcoex(Mask(xc, msk), Mask(yc, msk), Mask(w, msk), wsum, method)
        local_correlations ==
            [i \in 1..spot_n |-> [j \in 1..xy_n |-> cell(i, j)]]
    IN  IF \E i \in 1..spot_n : \E j \in 1..xy_n :
               local_correlations[i][j].err # ""
        THEN Raise("ValueError")
        ELSE Return([i \in 1..spot_n |->
                        [j \in 1..xy_n |-> local_correlations[i][j].val]])

(* ------------------------ the engine, as called ------------------------ *)

\* no call yet
NoCall == [fn |-> "none", method |-> "", code |-> -1, thr |-> 0, ret |-> Raise("")]

PermIdle == [pc |-> "idle"]

ProxIdle == [pc |-> "idle"]

SelIdle == [pc |-> "idle"]

CatIdle == [pc |-> "idle"]

\* spot_n x xy_n matrices with entries in vals
Matrices(spot_n, xy_n, vals) == [1..spot_n -> [1..xy_n -> vals]]

\* the engine's inputs: one entity pair, NSpots spots, small values, so that
\* no float32 product of the masked path rounds
EngineInit ==
    /\ x_mat \in Matrices(NSpots, 1, 0..MaxVal)
    /\ y_mat \in Matrices(NSpots, 1, 0..MaxVal)
    /\ dist \in Matrices(NSpots, NSpots, 0..MaxW)
    /\ out = NoCall
    /\ perm = PermIdle
    /\ prox = ProxIdle
    /\ sel = SelIdle
    /\ cat = CatIdle

\* the engine's inputs on two spots with values 0, 1 and BigVal, whose
\* squares and products need more than MantBits bits
CallsInit ==
    /\ x_mat \in Matrices(2, 1, {0, 1, BigVal})
    /\ y_mat \in Matrices(2, 1, {0, 1, BigVal})
    /\ dist \in Matrices(2, 2, 0..MaxW)
    /\ out = NoCall
    /\ perm = PermIdle
    /\ prox = ProxIdle
    /\ sel = SelIdle
    /\ cat = CatIdle

\* method names given to _vectorized_correlations; "kendall" is not supported
MethodNames == {"pearson", "spearman", "kendall"}

\* method codes given to _masked_coexpressions; 2 is not supported
MethodCodes == {0, 1, 2}

CallVectorizedCorrelations ==
    \E method \in MethodNames :
        /\ out = NoCall /\ sel = SelIdle
        /\ out' = [fn |-> "_vectorized_correlations", method |-> method,
                   code |-> -1, thr |-> 0,
                   ret |-> VectorizedCorrelations(x_mat, y_mat, dist, method)]
        /\ UNCHANGED <<x_mat, y_mat, dist, perm, prox, sel, cat>>

CallVectorizedWcosine ==
    /\ out = NoCall /\ sel = SelIdle
    /\ out' = [fn |-> "_vectorized_wcosine", method |-> "", code |-> -1,
               thr |-> 0, ret |-> VectorizedWcosine(x_mat, y_mat, dist)]
    /\ UNCHANGED <<x_mat, y_mat, dist, perm, prox, sel, cat>>

CallVectorizedJaccard ==
    /\ out = NoCall /\ sel = SelIdle
    /\ out' = [fn |-> "_vectorized_jaccard", method |-> "", code |-> -1,
               thr |-> 0, ret |-> VectorizedJaccard(x_mat, y_mat, dist)]
    /\ UNCHANGED <<x_mat, y_mat, dist, perm, prox, sel, cat>>

CallMaskedCoexpressions ==
    \E method \in MethodCodes : \E weight_thr \in 0..MaxW :
        /\ out = NoCall /\ sel = SelIdle
        /\ out' = [fn |-> "_masked_coexpressions", method |-> "",
                   code |-> method, thr |-> weight_thr,
                   ret |-> MaskedCoexpressions(x_mat, y_mat, dist,
                                               weight_thr, method)]
        /\ UNCHANGED <<x_mat, y_mat, dist, perm, prox, sel, cat>>

\* one call per run: the functions are pure, a second call on the same inputs
\* returns what the first returned, and no call reads another's result
EngineNext ==
    \/ CallVectorizedCorrelations
    \/ CallVectorizedWcosine
    \/ CallVectorizedJaccard
    \/ CallMaskedCoexpressions

SpecEngine == EngineInit /\ [][EngineNext]_vars


(* ------------------ _spatial_utils.py: _handle_functions --------------- *)

\* function_name.lower(), on the names the runs use
Lower(function_name) ==
    CASE function_name = "Pearson" -> "pearson"
      [] function_name = "COSINE"  -> "cosine"
      [] OTHER                     -> function_name

\* _handle_functions(function_name): the statistic function returned, the
\* ValueError raised, or None when the if-chain falls through
HandleFunctions(function_name) ==
    LET name == Lower(function_name)
    IN  IF name = "pearson" THEN Return("_vectorized_pearson")
        ELSE IF name = "spearman" THEN Return("_vectorized_spearman")
        ELSE IF name = "masked_pearson" THEN Return("_masked_pearson")
        ELSE IF name = "masked_spearman" THEN Return("_masked_spearman")
        ELSE IF name = "cosine" THEN Return("_vectorized_cosine")
        ELSE IF name = "jaccard" THEN Return("_vectorized_jaccard")
        ELSE IF name = "morans" THEN Raise("ValueError")
        ELSE Return("None")

\* the names _handle_functions maps to a statistic
SupportedNames ==
    {"pearson", "spearman", "masked_pearson", "masked_spearman", "cosine",
     "jaccard"}

\* names given to _handle_functions
FunctionNames ==
    SupportedNames \cup {"Pearson", "COSINE", "morans", "kendall", ""}

CallHandleFunctions ==
    \E function_name \in FunctionNames :
        /\ out = NoCall /\ sel = SelIdle
        /\ sel' = [pc |-> "done", function_name |-> function_name,
                   ret |-> HandleFunctions(function_name)]
        /\ UNCHANGED <<x_mat, y_mat, dist, out, perm, prox, cat>>

CallsNext == EngineNext \/ CallHandleFunctions

SpecCalls == CallsInit /\ [][CallsNext]_vars

(* -------------- _spatial_utils.py: _local_permutation_pvals ------------ *)

\* a p-value: the quotient n / d with d > 0, or not a number
PVal(n, d) == [k |-> "num", n |-> n, d |-> d]

PNaN == [k |-> "nan", n |-> 0, d |-> 0]

POne == PVal(1, 1)

\* count / n_perm in floating point: 0 / 0 is nan (numpy warns and goes on),
\* a count over a negative n_perm is a quotient with the signs moved
Divide(count, n_perm) ==
    IF n_perm > 0 THEN PVal(count, n_perm)
    ELSE IF n_perm < 0 THEN PVal(-count, -n_perm)
    ELSE PNaN

\* |a| >= |b| for two statistics of one kind.  With L the difference of the
\* cross products, the eps terms decide only when L = 0 (they are below 1 in
\* absolute value for the integers of the runs)
AbsGeq(a, b) ==
    /\ a.k # "nan" /\ b.k # "nan"
    /\ IF a.k = "sqrt"
       THEN LET L == a.n * a.n * b.d - b.n * b.n * a.d
            IN  L > 0 \/ (L = 0 /\ (a.e = 0 \/ a.n * a.n >= b.n * b.n))
       ELSE LET L == Abs(a.n) * b.d - Abs(b.n) * a.d
            IN  L > 0 \/ (L = 0 /\ (a.e = 0 \/ Abs(a.n) >= Abs(b.n)))

\* a >= b for two statistics of one kind
Geq(a, b) ==
    /\ a.k # "nan" /\ b.k # "nan"
    /\ IF a.n >= 0 /\ b.n <= 0 THEN TRUE
       ELSE IF a.n < 0 /\ b.n >= 0 THEN FALSE
       ELSE IF a.n >= 0 THEN AbsGeq(a, b)
       ELSE AbsGeq(b, a)

\* the statistic functions the tester can call: it passes dist= by keyword,
\* the parameter name of the vectorized functions
ApplyLocalFun(local_fun, x, y, d) ==
    CASE local_fun = "_vectorized_pearson"  -> VectorizedCorrelations(x, y, d, "pearson")
      [] local_fun = "_vectorized_spearman" -> VectorizedCorrelations(x, y, d, "spearman")
      [] local_fun = "_vectorized_cosine"   -> VectorizedWcosine(x, y, d)
      [] local_fun = "_vectorized_jaccard"  -> VectorizedJaccard(x, y, d)

\* indexing that repeats the first chosen row instead of taking row idx[r]
TakeRowsRepeated(m, idx) == Eager([r \in 1..Len(idx) |-> m[idx[1]]])

\* x_mat[_idx, :]
TakeRows(m, idx) == Eager([r \in 1..Len(idx) |-> m[idx[r]]])

\* np.zeros((rows, cols))
Zeros(rows, cols) == [r \in 1..rows |-> [c \in 1..cols |-> 0]]

\* the loop body with np.abs left out of the two-sided comparison
ExceedsNoAbs(perm_score, local_truth, positive_only) ==
    Eager([r \in 1..Len(local_truth) |->
        [c \in 1..Len(local_truth[r]) |->
            IF Geq(perm_score[r][c], local_truth[r][c]) THEN 1 ELSE 0]])

\* one pass of the loop body: what is added to local_pvals
\*   np.array(perm_score >= local_truth, dtype=int)            positive_only
\*   np.array(np.abs(perm_score) >= np.abs(local_truth), dtype=int)   otherwise
Exceeds(perm_score, local_truth, positive_only) ==
    Eager([r \in 1..Len(local_truth) |->
        [c \in 1..Len(local_truth[r]) |->
            IF positive_only
            THEN (IF Geq(perm_score[r][c], local_truth[r][c]) THEN 1 ELSE 0)
            ELSE (IF AbsGeq(perm_score[r][c], local_truth[r][c]) THEN 1 ELSE 0)]])

\* a + b, elementwise
Add(a, b) ==
    Eager([r \in 1..Len(a) |-> [c \in 1..Len(a[r]) |-> a[r][c] + b[r][c]]])

\* ((x_mat > 0) + (y_mat > 0)).T with >= in place of >
PosMskGeq(x, y) ==
    Transpose([r \in 1..Len(x) |->
                  [c \in 1..Len(x[r]) |-> x[r][c] >= 0 \/ y[r][c] >= 0]])

\* pos_msk = ((x_mat > 0) + (y_mat > 0)).T
PosMsk(x, y) ==
    Transpose([r \in 1..Len(x) |->
                  [c \in 1..Len(x[r]) |-> x[r][c] > 0 \/ y[r][c] > 0]])

\* lines 151-159: the division by n_perm and the positive_only mask
FinalPvals(local_pvals, n_perm, positive_only, x, y) ==
    LET divided == [r \in 1..Len(local_pvals) |->
                       [c \in 1..Len(local_pvals[r]) |->
                           Divide(local_pvals[r][c], n_perm)]]
        pos_msk == PosMsk(x, y)
    IN  IF positive_only
        THEN [r \in 1..Len(divided) |->
                 [c \in 1..Len(divided[r]) |->
                     IF ~pos_msk[r][c] THEN POne ELSE divided[r][c]]]
        ELSE divided

\* statistic functions given as local_fun
LocalFuns ==
    {"_vectorized_pearson", "_vectorized_spearman", "_vectorized_cosine",
     "_vectorized_jaccard"}

\* entity matrices of the permutation runs: NSpots spots, NPairs pairs, the
\* first spots holding the rows of head
PermMats(vals, head) ==
    {m \in Matrices(NSpots, NPairs, vals) :
        \A r \in 1..Len(head) : \A c \in 1..NPairs : m[r][c] = head[r][c]}

\* the proximity of the permutation runs: spots in a line, each with weight 2
\* to itself and 1 to the next spot
LineDist ==
    [a \in 1..NSpots |->
        [b \in 1..NSpots |-> IF a = b THEN 2 ELSE IF Abs(a - b) = 1 THEN 1 ELSE 0]]

\* the tester at line 140: arguments bound, local_truth computed by the
\* caller with the same local_fun, local_pvals all zero
PermInit ==
    /\ x_mat \in PermMats({0, 1}, <<[c \in 1..NPairs |-> 0]>>)
    /\ y_mat \in PermMats({-1, 1}, <<[c \in 1..NPairs |-> -1],
                                      [c \in 1..NPairs |-> IF c = 1 THEN 1 ELSE -1]>>)
    /\ dist = LineDist
    /\ out = NoCall
    /\ prox = ProxIdle
    /\ sel = SelIdle
    /\ cat = CatIdle
    /\ \E local_fun \in LocalFuns : \E n_perm \in -1..MaxPerm :
       \E positive_only \in BOOLEAN :
          LET local_truth == ApplyLocalFun(local_fun, x_mat, y_mat, dist).val
              xy_n        == Len(local_truth)
              spot_n      == Len(local_truth[1])
          IN  perm = [pc            |-> "loop",
                      local_fun     |-> local_fun,
                      n_perm        |-> n_perm,
                      positive_only |-> positive_only,
                      local_truth   |-> local_truth,
                      xy_n          |-> xy_n,
                      spot_n        |-> spot_n,
                      i             |-> 0,
                      local_pvals   |-> Zeros(xy_n, spot_n),
                      hist          |-> <<>>]

\* one iteration of  for i in range(n_perm)
PermIteration ==
    /\ perm.pc = "loop"
    /\ perm.i < perm.n_perm
    /\ \E _idx \in Permutations(1..perm.spot_n) :
          LET perm_score == ApplyLocalFun(perm.local_fun, TakeRows(x_mat, _idx),
                                          y_mat, dist).val
          IN  perm' = [perm EXCEPT
                         !.i = @ + 1,
                         !.local_pvals =
                             Add(@, Exceeds(perm_score, perm.local_truth,
                                            perm.positive_only)),
                         !.hist = Append(@, [idx |-> _idx, x |-> TakeRows(x_mat, _idx),
                                             y |-> y_mat, dist |-> dist,
                                             local_truth |-> perm.local_truth,
                                             perm_score |-> perm_score])]
    /\ UNCHANGED <<x_mat, y_mat, dist, out, prox, sel, cat>>

\* the loop is over: divide, mask, return
PermReturn ==
    /\ perm.pc = "loop"
    /\ perm.i >= perm.n_perm
    /\ perm' = [perm EXCEPT
                  !.pc = "done",
                  !.local_pvals = FinalPvals(@, perm.n_perm, perm.positive_only,
                                             x_mat, y_mat)]
    /\ UNCHANGED <<x_mat, y_mat, dist, out, prox, sel, cat>>

PermNext == PermIteration \/ PermReturn

SpecPerm == PermInit /\ [][PermNext]_vars

(* ------------------------ the proximity builder ------------------------ *)

\* largest x coordinate of a spot; the spots lie on the line y = 0, so that
\* every Euclidean distance is an integer
MaxCoord == 3

\* spot_n > 1000: the matrix is stored as float16
Float16Spots == 1000
\* significand width of float16
Float16Bits == 11

\* round(1000 * exp(-k / 8)) for k = 0, 1, ...: np.exp at the arguments the
\* kernels take, as a weight in thousandths
ExpTable ==
    <<1000, 882, 779, 687, 607, 535, 472, 417, 368, 325, 287, 253, 223, 197,
      174, 153, 135, 119, 105, 93, 82, 72, 64, 56, 50, 44, 39, 34, 30, 27,
      24, 21, 18, 16, 14, 13, 11, 10, 9, 8, 7, 6, 5, 5, 4, 4, 3, 3, 2, 2, 2,
      2, 2, 1, 1, 1, 1, 1, 1, 1, 1>>

\* np.exp(-k / 8), in thousandths
ExpNeg8(k) == IF k < Len(ExpTable) THEN ExpTable[k + 1] ELSE 0

\* the weight 1.0: weights are integers counting thousandths
One == ExpNeg8(0)

\* an argument left at its default None, and an argument given as <<v>>
None == <<>>

\* families = ['gaussian', 'spatialdm', 'exponential', 'linear']
Families == {"gaussian", "spatialdm", "exponential", "linear"}

\* family arguments of the runs
FamilyNames == Families \cup {"misty_rbf", "bogus"}

\* parameter arguments of the runs: with these every kernel argument is a
\* multiple of 1/8
Parameters == {1, 2}

\* cutoff arguments of the runs: None, 0.1, 0.5
Cutoffs == {None, <<One \div 10>>, <<One \div 2>>}

\* n_neighbors arguments of the runs: None, 1, 2, and more than the spots
NeighborCounts == {None, <<1>>, <<2>>, <<NSpots + 1>>}

\* the checks of get_spatial_proximity as they would be without the test of
\* family against families
ProximityChecksNoFamily(adata, family, cutoff, n_neighbors, optimized) ==
    IF cutoff = None /\ n_neighbors = None THEN "ValueError"
    ELSE IF "spatial" \notin adata.obsm_keys
         THEN (IF optimized THEN "KeyError" ELSE "AssertionError")
         ELSE ""

\* the checks at the head of get_spatial_proximity, in the order of the
\* code: the exception raised, or "" when the call goes on.  The assert of
\* line 58 is dropped by python -O; adata.obsm['spatial'] of line 60 then
\* raises KeyError.
ProximityChecks(adata, family, cutoff, n_neighbors, optimized) ==
    IF family \notin Families THEN "AssertionError"
    ELSE IF cutoff = None /\ n_neighbors = None THEN "ValueError"
    ELSE IF "spatial" \notin adata.obsm_keys
         THEN (IF optimized THEN "KeyError" ELSE "AssertionError")
         ELSE ""

\* squareform(pdist(coordinates, 'euclidean'))
Squareform(coordinates) ==
    Eager([a \in 1..Len(coordinates) |->
              [b \in 1..Len(coordinates) |->
                  ISqrt((coordinates[a][1] - coordinates[b][1])
                          * (coordinates[a][1] - coordinates[b][1])
                        + (coordinates[a][2] - coordinates[b][2])
                          * (coordinates[a][2] - coordinates[b][2]))]])

\* the if-chain over family, on one distance d: a weight in thousandths.
\* No branch tests 'spatialdm', and 'misty_rbf' is tested but is not in
\* families; a family without a branch keeps the distance.
Kernel(family, d, parameter) ==
    IF family = "gaussian"
    THEN ExpNeg8((4 * d * d) \div (parameter * parameter))
    ELSE IF family = "misty_rbf"
    THEN ExpNeg8((8 * d * d) \div (parameter * parameter))
    ELSE IF family = "exponential"
    THEN ExpNeg8((8 * d) \div parameter)
    ELSE IF family = "linear"
    THEN (IF One - (One * d) \div parameter < 0 THEN 0
          ELSE One - (One * d) \div parameter)
    ELSE One * d

\* the kernel, elementwise
ApplyKernel(family, proximity, parameter) ==
    Eager([a \in 1..Len(proximity) |->
              [b \in 1..Len(proximity) |->
                  Kernel(family, proximity[a][b], parameter)]])

\* np.fill_diagonal(proximity, 0)
FillDiagonal(proximity) ==
    Eager([a \in 1..Len(proximity) |->
              [b \in 1..Len(proximity) |-> IF a = b THEN 0 ELSE proximity[a][b]]])

\* proximity[proximity < cutoff] = 0
BelowCutoff(proximity, cutoff) ==
    Eager([a \in 1..Len(proximity) |->
              [b \in 1..Len(proximity) |->
                  IF proximity[a][b] < cutoff THEN 0 ELSE proximity[a][b]]])

\* squared Euclidean distance of rows a and b of the matrix, which
\* NearestNeighbors takes as points
RowDist2(proximity, a, b) ==
    Sum([k \in 1..Len(proximity) |->
            (proximity[a][k] - proximity[b][k])
              * (proximity[a][k] - proximity[b][k])])

\* the sets of n_neighbors rows nearest to row a (a itself is a candidate at
\* distance 0); rows at equal distance are taken in any order
NearestSets(proximity, a, n_neighbors) ==
    {s \in SUBSET (1..Len(proximity)) :
        /\ Cardinality(s) = n_neighbors
        /\ \A b \in s : \A c \in (1..Len(proximity)) \ s :
              RowDist2(proximity, a, b) <= RowDist2(proximity, a, c)}

\* the neighbour sets of rows 1..a, one choice per row
RECURSIVE NeighborRows(_, _, _)
NeighborRows(proximity, n_neighbors, a) ==
    IF a = 0 THEN {<<>>}
    ELSE {Append(g, s) : g \in NeighborRows(proximity, n_neighbors, a - 1),
                         s \in NearestSets(proximity, a, n_neighbors)}

\* nn.kneighbors_graph(proximity).toarray(): the 0/1 matrices it can give
KneighborsGraphs(proximity, n_neighbors) ==
    {Eager([a \in 1..Len(proximity) |->
               [b \in 1..Len(proximity) |-> IF b \in g[a] THEN 1 ELSE 0]]) :
        g \in NeighborRows(proximity, n_neighbors, Len(proximity))}

\* proximity.astype(np.float16): the significand cut to Float16Bits bits
AsFloat16(proximity) ==
    Eager([a \in 1..Len(proximity) |->
              [b \in 1..Len(proximity) |-> RoundBits(proximity[a][b], Float16Bits)]])

\* a stored entry of a csr matrix is a pair <<column, value>>
Stored(e) == e[2] # 0

\* csr_matrix(proximity): the shape, and for every row the non-zero entries
\* in column order (what indptr, indices and data hold)
CsrMatrix(proximity) ==
    [shape |-> <<Len(proximity), Len(proximity)>>,
     rows  |-> Eager([a \in 1..Len(proximity) |->
                         SelectSeq([b \in 1..Len(proximity) |-> <<b, proximity[a][b]>>],
                                   Stored)])]

\* entry [a, b] of a csr matrix
CsrAt(m, a, b) ==
    LET hits == SelectSeq(m.rows[a], LAMBDA e : e[1] = b)
    IN  IF hits = <<>> THEN 0 ELSE hits[1][2]

\* get_spatial_proximity: the outcomes of one call, each with adata after
\* the call, the value returned or the exception raised, whether pdist ran,
\* and the matrix after pdist and after the kernel
GetSpatialProximityOutcomes(adata, parameter, family, cutoff, n_neighbors, bypass_diagonal, inplace, optimized) ==
    LET check    == ProximityChecks(adata, family, cutoff, n_neighbors, optimized)
        distance == Squareform(adata.spatial)
        kernel   == ApplyKernel(family, distance, parameter)
        bypassed == IF bypass_diagonal THEN FillDiagonal(kernel) ELSE kernel
        cut      == IF cutoff # None THEN BelowCutoff(bypassed, cutoff[1])
                    ELSE bypassed
        spot_n   == Len(cut)
        Store(proximity) ==
            CsrMatrix(IF spot_n > Float16Spots THEN AsFloat16(proximity)
                      ELSE proximity)
        Finish(proximity) ==
            [adata        |-> [adata EXCEPT
                                 !.obsm_keys = @ \cup {"proximity"},
                                 !.proximity = Store(proximity)],
             ret          |-> IF inplace THEN Return(None)
                              ELSE Return(Store(proximity)),
             pdist_called |-> TRUE,
             distance     |-> distance,
             kernel       |-> kernel]
    IN  IF check # ""
        THEN {[adata |-> adata, ret |-> Raise(check), pdist_called |-> FALSE,
               distance |-> <<>>, kernel |-> <<>>]}
        ELSE IF n_neighbors = None
        THEN {Finish(cut)}
        ELSE IF n_neighbors[1] > spot_n
        THEN {[adata |-> adata, ret |-> Raise("ValueError"),
               pdist_called |-> TRUE, distance |-> distance,
               kernel |-> kernel]}
        ELSE {Finish(Mul(cut, knn)) : knn \in KneighborsGraphs(cut, n_neighbors[1])}

\* a csr matrix with no rows: the value of a key that obsm does not hold
NoMatrix == [shape |-> <<0, 0>>, rows |-> <<>>]

\* the proximity a previous call left in adata.obsm: the identity
OldProximity ==
    CsrMatrix([a \in 1..NSpots |-> [b \in 1..NSpots |-> IF a = b THEN One ELSE 0]])

\* the coordinates of NSpots spots on the line y = 0, the first at x = 0
Coordinates ==
    {Eager([a \in 1..NSpots |-> <<c[a], 0>>]) :
        c \in {f \in [1..NSpots -> 0..MaxCoord] : f[1] = 0}}

\* the AnnData objects of the runs: NSpots observations, obsm with or
\* without 'spatial', with or without a 'proximity' of an earlier call
AnnDatas ==
    {[n_obs |-> NSpots, obsm_keys |-> {"spatial"} \cup old,
      spatial |-> sp,
      proximity |-> IF old = {} THEN NoMatrix ELSE OldProximity] :
        sp \in Coordinates, old \in {{}, {"proximity"}}}
    \cup
    {[n_obs |-> NSpots, obsm_keys |-> old, spatial |-> <<>>,
      proximity |-> IF old = {} THEN NoMatrix ELSE OldProximity] :
        old \in {{}, {"proximity"}}}

ProxInit ==
    /\ x_mat = <<>>
    /\ y_mat = <<>>
    /\ dist = <<>>
    /\ out = NoCall
    /\ perm = PermIdle
    /\ sel = SelIdle
    /\ cat = CatIdle
    /\ \E adata \in AnnDatas : prox = [pc |-> "idle", adata |-> adata]

GetSpatialProximity ==
    /\ prox.pc = "idle"
    /\ \E parameter \in Parameters : \E family \in FamilyNames :
       \E cutoff \in Cutoffs : \E n_neighbors \in NeighborCounts :
       \E bypass_diagonal \in BOOLEAN : \E inplace \in BOOLEAN :
       \E optimized \in BOOLEAN :
       \E o \in GetSpatialProximityOutcomes(prox.adata, parameter, family, cutoff,
                                            n_neighbors, bypass_diagonal, inplace,
                                            optimized) :
           /\ prox' = [pc              |-> "done",
                       adata           |-> o.adata,
                       before          |-> prox.adata,
                       parameter       |-> parameter,
                       family          |-> family,
                       cutoff          |-> cutoff,
                       n_neighbors     |-> n_neighbors,
                       bypass_diagonal |-> bypass_diagonal,
                       inplace         |-> inplace,
                       ret             |-> o.ret,
                       pdist_called    |-> o.pdist_called,
                       distance        |-> o.distance,
                       kernel          |-> o.kernel]
           /\ UNCHANGED <<x_mat, y_mat, dist, out, perm, sel, cat>>

ProxNext == GetSpatialProximity

SpecProx == ProxInit /\ [][ProxNext]_vars

(* -------------------------- sign categories ---------------------------- *)

\* spots of the category runs
CatSpots == 2

\* entity values of the category runs
XValues == {-1, 0, 1, 2}
YValues == {-1, 0, 1}

\* mat.sum(axis=0): the sum of every column
ColumnSums(mat) ==
    [c \in 1..Len(mat[1]) |-> Sum([r \in 1..Len(mat) |-> mat[r][c]])]

\* _standardize_matrix(mat, local): every value minus the mean of its column.
\* The values kept are the centered values times the number of rows, which
\* are integers with the same signs.  With local false every value is then
\* divided by the norm of its column: a Stat with the sum of squares under
\* the root, not a number when the column is all zero.
StandardizeMatrix(mat, local) ==
    LET n        == Len(mat)
        centered == Eager([r \in 1..n |->
                              [c \in 1..Len(mat[1]) |->
                                  n * mat[r][c] - ColumnSums(mat)[c]]])
        norm2    == ColumnSums(Sq(centered))
    IN  IF local THEN centered
        ELSE Eager([r \in 1..n |->
                       [c \in 1..Len(mat[1]) |->
                           IF norm2[c] = 0 THEN StatNaN
                           ELSE Stat("sqrt", centered[r][c], norm2[c], 0, FALSE)]])

\* np.all(a >= 0)
AllNonNegative(a) ==
    \A r \in 1..Len(a) : \A c \in 1..Len(a[1]) : a[r][c] >= 0

\* np.where(a > 0, 'P', np.where(a < 0, 'N', 'Z'))
SignChars(a) ==
    Eager([r \in 1..Len(a) |->
              [c \in 1..Len(a[1]) |->
                  IF a[r][c] > 0 THEN "P" ELSE IF a[r][c] < 0 THEN "N" ELSE "Z"]])

\* _encode_as_char(a): the matrix is centered when none of its values is
\* negative, then every value becomes the letter of its sign
EncodeAsChar(a) ==
    SignChars(IF AllNonNegative(a) THEN StandardizeMatrix(a, TRUE) ELSE a)

\* _categorize(x, y): np.core.defchararray.add, the letters joined
Categorize(x, y) ==
    Eager([r \in 1..Len(x) |-> [c \in 1..Len(x[1]) |-> x[r][c] \o y[r][c]]])

\* a cell of the simplified frame: a number, or the label left in place
NumberCell(v) == [kind |-> "number", number |-> v, label |-> ""]
LabelCell(l) == [kind |-> "label", number |-> 0, label |-> l]

\* df.replace({r'(^*Z*$)': 0, 'NN': 0, 'PP': 1, 'PN': -1, "NP": -1}) on one
\* cell.  replace is called without regex=True, so every key is compared to
\* the cell as a string.
Replace(label) ==
    IF label = "(^*Z*$)" THEN NumberCell(0)
    ELSE IF label = "NN" THEN NumberCell(0)
    ELSE IF label = "PP" THEN NumberCell(1)
    ELSE IF label = "PN" THEN NumberCell(-1)
    ELSE IF label = "NP" THEN NumberCell(-1)
    ELSE LabelCell(label)

\* _simplify_cats(df)
SimplifyCats(df) ==
    Eager([r \in 1..Len(df) |-> [c \in 1..Len(df[1]) |-> Replace(df[r][c])]])

\* the matrices given to _encode_as_char: CatSpots spots, NPairs entities
CatInit ==
    /\ x_mat \in Matrices(CatSpots, NPairs, XValues)
    /\ y_mat \in Matrices(CatSpots, NPairs, YValues)
    /\ dist = <<>>
    /\ out = NoCall
    /\ perm = PermIdle
    /\ prox = ProxIdle
    /\ sel = SelIdle
    /\ cat = [pc |-> "idle", x_cats |-> <<>>, y_cats |-> <<>>,
              cats |-> <<>>, simple |-> <<>>]

\* x_cats = _encode_as_char(x_mat) or y_cats = _encode_as_char(y_mat)
CallEncodeAsChar ==
    /\ cat.pc = "idle"
    /\ \/ /\ cat.x_cats = <<>>
          /\ cat' = [cat EXCEPT !.x_cats = EncodeAsChar(x_mat)]
       \/ /\ cat.y_cats = <<>>
          /\ cat' = [cat EXCEPT !.y_cats = EncodeAsChar(y_mat)]
    /\ UNCHANGED <<x_mat, y_mat, dist, out, perm, prox, sel>>

\* cats = _categorize(x_cats, y_cats)
CallCategorize ==
    /\ cat.pc = "idle"
    /\ cat.x_cats # <<>> /\ cat.y_cats # <<>>
    /\ cat' = [cat EXCEPT !.pc = "categorized",
                          !.cats = Categorize(cat.x_cats, cat.y_cats)]
    /\ UNCHANGED <<x_mat, y_mat, dist, out, perm, prox, sel>>

\* _simplify_cats(cats)
CallSimplifyCats ==
    /\ cat.pc = "categorized"
    /\ cat' = [cat EXCEPT !.pc = "simplified", !.simple = SimplifyCats(cat.cats)]
    /\ UNCHANGED <<x_mat, y_mat, dist, out, perm, prox, sel>>

CatNext == CallEncodeAsChar \/ CallCategorize \/ CallSimplifyCats

SpecCats == CatInit /\ [][CatNext]_vars

(* ------------------------- reading statistics -------------------------- *)

\* the statistic of spot i and pair j in the output of a call: the vectorized
\* functions return xy_n x spot_n, the masked one spot_n x xy_n
StatAt(o, i, j) ==
    IF o.fn = "_masked_coexpressions" THEN o.ret.val[i][j] ELSE o.ret.val[j][i]

Returned(o) == o.fn # "none" /\ o.ret.err = ""

SpotsOf(o) == 1..Len(dist)

PairsOf(o) == 1..Len(x_mat[1])

\* the value is a number and exactly 0
IsZero(s) ==
    /\ s.k # "nan"
    /\ s.n = 0
    /\ s.d >= 0
    /\ s.d > 0 \/ s.e = 1

\* the value is a number with 0 <= value <= 1 (n and d are integers and
\* eps < 1, so n*n <= d + eps exactly when n*n <= d)
InUnit(s) ==
    /\ s.k # "nan"
    /\ s.n >= 0
    /\ s.d >= 0
    /\ IF s.k = "sqrt" THEN s.n * s.n <= s.d ELSE s.n <= s.d

\* the value is a number with -1 <= value <= 1.  A float32 result v exceeds 1
\* exactly when v > 1 + 2^-MantBits (halfway to the next float, ties to even)
AbsLeqOne(s) ==
    /\ s.k = "sqrt"
    /\ s.d > 0
    /\ IF s.f32
       THEN s.n * s.n * Pow2(2 * MantBits)
              <= s.d * (Pow2(MantBits) + 1) * (Pow2(MantBits) + 1)
       ELSE s.n * s.n <= s.d

\* floor(1000 * |value|), signed: the value in thousandths
Milli(s) ==
    LET m == ISqrt((1000000 * s.n * s.n) \div s.d)
    IN  IF s.n < 0 THEN -m ELSE m

\* two statistics agree to 5 decimal places only if their thousandths differ
\* by at most 1
Agree(a, b) ==
    /\ a.k = "sqrt" /\ b.k = "sqrt"
    /\ a.d > 0 /\ b.d > 0
    /\ Abs(Milli(a) - Milli(b)) <= 1

ZeroRow(i) == \A k \in 1..Len(dist) : dist[i][k] = 0

(* ------------------------------- C1 ----------------------------------- *)

\* C1: whenever an engine function has returned, the statistic of every spot
\* whose weight row is all zero is exactly 0 for every pair, and is a number
\* (vectorized pearson, spearman, cosine, jaccard; masked pearson, spearman)
C1_ZeroRowGivesZero ==
    Returned(out) =>
        \A i \in SpotsOf(out) : ZeroRow(i) =>
            \A j \in PairsOf(out) : IsZero(StatAt(out, i, j))

\* a masked call has returned for a spot without weights whose neighbours
\* have weights and where x and y vary
C1_Witness ==
    /\ Returned(out)
    /\ out.fn = "_masked_coexpressions"
    /\ out.thr = 0
    /\ ZeroRow(1) /\ ~ZeroRow(2)
    /\ x_mat[1][1] # x_mat[2][1] /\ y_mat[1][1] # y_mat[2][1]

(* ------------------------------- C2 ----------------------------------- *)

MethodName(code) == IF code = 0 THEN "pearson" ELSE "spearman"

\* C2: with threshold 0 (exactly the positive weights are kept) the masked
\* statistic of every spot and pair agrees with the vectorized statistic of
\* the same method on the same inputs
C2_MaskedAgreesWithVectorized ==
    (Returned(out) /\ out.fn = "_masked_coexpressions" /\ out.thr = 0) =>
        LET vec == VectorizedCorrelations(x_mat, y_mat, dist,
                                          MethodName(out.code)).val
        IN  \A i \in SpotsOf(out) : \A j \in PairsOf(out) :
                Agree(out.ret.val[i][j], vec[j][i])

(* ------------------------------- C3 ----------------------------------- *)

\* C3: on non-negative inputs and weights every cosine and every Jaccard
\* output lies in [0, 1]
C3_CosineJaccardInUnit ==
    (Returned(out) /\ out.fn \in {"_vectorized_wcosine", "_vectorized_jaccard"}) =>
        \A i \in SpotsOf(out) : \A j \in PairsOf(out) :
            InUnit(StatAt(out, i, j))

(* ------------------------------- C4 ----------------------------------- *)

\* C4: every Pearson and Spearman statistic, vectorized or masked, lies in
\* [-1, 1]
C4_CorrelationInRange ==
    (Returned(out)
        /\ out.fn \in {"_vectorized_correlations", "_masked_coexpressions"}) =>
        \A i \in SpotsOf(out) : \A j \in PairsOf(out) :
            AbsLeqOne(StatAt(out, i, j))

(* ------------------------------- C8 ----------------------------------- *)

\* C8: selecting a statistic by an unsupported name raises ValueError:
\* _handle_functions never returns for such a name, and
\* _vectorized_correlations and _masked_coexpressions (through _wcoex) raise
\* ValueError for a method other than pearson and spearman
C8_UnsupportedNameRaises ==
    /\ (sel.pc = "done" /\ Lower(sel.function_name) \notin SupportedNames) =>
            sel.ret.err = "ValueError"
    /\ (out.fn = "_vectorized_correlations"
            /\ out.method \notin {"pearson", "spearman"}) =>
            out.ret.err = "ValueError"
    /\ (out.fn = "_masked_coexpressions" /\ out.code \notin {0, 1}) =>
            out.ret.err = "ValueError"

(* ------------------------------- C5 ----------------------------------- *)

PIsOne(p) == p.k = "num" /\ p.n = p.d

\* the permuted statistics that met the true one at (pair r, spot c), counted
\* from the recorded iterations
SignedCount(r, c) ==
    Cardinality({k \in 1..Len(perm.hist) :
        Geq(perm.hist[k].perm_score[r][c], perm.local_truth[r][c])})

\* C5: with positive_only, after n_perm >= 1 permutations, the returned
\* p-value is exactly 1 in every cell whose original x and y are both <= 0
C5_PositiveOnlyForcesOne ==
    (perm.pc = "done" /\ perm.positive_only /\ perm.n_perm >= 1) =>
        \A i \in 1..Len(x_mat) : \A j \in 1..Len(x_mat[i]) :
            (x_mat[i][j] <= 0 /\ y_mat[i][j] <= 0) =>
                PIsOne(perm.local_pvals[j][i])

\* a positive_only run has returned, and in a cell with x <= 0 and y <= 0 some
\* permuted statistic was below the true one: the count alone would have
\* given a p-value below 1
C5_Witness ==
    /\ perm.pc = "done" /\ perm.positive_only /\ perm.n_perm >= 1
    /\ \E i \in 1..Len(x_mat) : \E j \in 1..Len(x_mat[i]) :
          /\ x_mat[i][j] <= 0 /\ y_mat[i][j] <= 0
          /\ SignedCount(j, i) < perm.n_perm

(* ------------------------------- C6 ----------------------------------- *)

\* the permuted statistics that met the true one in absolute value
AbsCount(r, c) ==
    Cardinality({k \in 1..Len(perm.hist) :
        AbsGeq(perm.hist[k].perm_score[r][c], perm.local_truth[r][c])})

\* C6: without positive_only and with n_perm >= 1, every returned p-value is
\* the number of permutations whose statistic met the true one in absolute
\* value, over n_perm, so it lies in [0, 1]; and during the loop no count
\* exceeds the iterations done, which never exceed n_perm
C6_PvalueIsCountOverNPerm ==
    (perm.pc # "idle" /\ ~perm.positive_only /\ perm.n_perm >= 1) =>
        \A r \in 1..perm.xy_n : \A c \in 1..perm.spot_n :
            IF perm.pc = "done"
            THEN /\ Len(perm.hist) = perm.n_perm
                 /\ perm.local_pvals[r][c] = PVal(AbsCount(r, c), perm.n_perm)
                 /\ 0 <= perm.local_pvals[r][c].n
                 /\ perm.local_pvals[r][c].n <= perm.local_pvals[r][c].d
            ELSE /\ perm.local_pvals[r][c] = AbsCount(r, c)
                 /\ perm.local_pvals[r][c] <= perm.i
                 /\ perm.i <= perm.n_perm

\* a two-sided run of MaxPerm permutations has returned a p-value strictly
\* between 0 and 1
C6_Witness ==
    /\ perm.pc = "done" /\ ~perm.positive_only /\ perm.n_perm = MaxPerm
    /\ \E r \in 1..perm.xy_n : \E c \in 1..perm.spot_n :
          /\ 0 < perm.local_pvals[r][c].n
          /\ perm.local_pvals[r][c].n < perm.local_pvals[r][c].d

(* ------------------------------- C7 ----------------------------------- *)

\* C7: a call with n_perm <= 0 fails at the call boundary: it never returns
\* a p-value matrix, and it ends raised before any statistic is computed
C7_NonPositiveNPermFails ==
    (perm.pc \in {"done", "raised"} /\ perm.n_perm <= 0) =>
        (perm.pc = "raised" /\ perm.hist = <<>>)

(* ------------------------------- C9 ----------------------------------- *)

\* C9: a call of get_spatial_proximity with neither cutoff nor n_neighbors,
\* with a family that is not recognized, or on an adata without spatial
\* coordinates raises an exception; pdist has not run, and adata, with its
\* obsm['proximity'], is as before the call
C9_InvalidCallFailsBeforeComputing ==
    (/\ prox.pc = "done"
     /\ \/ prox.cutoff = None /\ prox.n_neighbors = None
        \/ prox.family \notin Families
        \/ "spatial" \notin prox.before.obsm_keys) =>
        /\ prox.ret.err # ""
        /\ ~prox.pdist_called
        /\ prox.distance = <<>>
        /\ prox.adata = prox.before

\* a call with an unrecognized family and a cutoff, on an adata that holds
\* coordinates and an earlier proximity, has raised
C9_Witness ==
    /\ prox.pc = "done"
    /\ prox.family \notin Families
    /\ prox.cutoff # None
    /\ prox.before.obsm_keys = {"spatial", "proximity"}
    /\ prox.ret.err = "AssertionError"
    /\ prox.adata.proximity = OldProximity

(* ------------------------------- C10 ---------------------------------- *)

\* C10: after the kernel of any family in families, and before the
\* diagonal, cutoff and neighbour masks, no weight exceeds the weight of two
\* spots at distance 0, and of two pairs of spots the pair farther apart
\* never has the larger weight
C10_KernelDecaysWithDistance ==
    (prox.pc = "done" /\ prox.pdist_called /\ prox.family \in Families) =>
        \A a \in 1..Len(prox.distance) : \A b \in 1..Len(prox.distance) :
        \A c \in 1..Len(prox.distance) : \A e \in 1..Len(prox.distance) :
            prox.distance[a][b] <= prox.distance[c][e] =>
                prox.kernel[a][b] >= prox.kernel[c][e]

(* ------------------------------- C11 ---------------------------------- *)

\* C11: a call of get_spatial_proximity that returns writes
\* adata.obsm['proximity'] only when inplace is set: with inplace it returns
\* None and adata holds the matrix, without inplace it returns the matrix
\* and adata is as before the call
C11_WritesOnlyInPlace ==
    (prox.pc = "done" /\ prox.ret.err = "") =>
        IF prox.inplace
        THEN /\ prox.ret.val = None
             /\ "proximity" \in prox.adata.obsm_keys
        ELSE /\ prox.ret.val = prox.adata.proximity
             /\ prox.adata = prox.before

(* ------------------------------- C15 ---------------------------------- *)

\* C15: the matrix a call of get_spatial_proximity with a family in families
\* stores and returns has no negative entry and is symmetric
C15_ProximityNonNegativeSymmetric ==
    (prox.pc = "done" /\ prox.ret.err = "" /\ prox.family \in Families) =>
        \A a \in 1..prox.adata.n_obs : \A b \in 1..prox.adata.n_obs :
            /\ CsrAt(prox.adata.proximity, a, b) >= 0
            /\ CsrAt(prox.adata.proximity, a, b) = CsrAt(prox.adata.proximity, b, a)

(* ------------------------------- C14 ---------------------------------- *)

\* the number of rows of m that hold v in column c
ColumnCount(m, c, v) == Cardinality({r \in 1..Len(m) : m[r][c] = v})

\* what iteration k of the loop passed to local_fun: the rows of x_mat
\* reordered by a bijection of the spot indices, every column with the same
\* values as often as in x_mat, and y_mat, dist and local_truth themselves
PassedPermuted(k) ==
    LET h == perm.hist[k]
    IN  /\ {h.idx[r] : r \in 1..perm.spot_n} = 1..perm.spot_n
        /\ Len(h.x) = Len(x_mat)
        /\ \A r \in 1..Len(x_mat) : h.x[r] = x_mat[h.idx[r]]
        /\ \A c \in 1..Len(x_mat[1]) : \A r \in 1..Len(x_mat) :
              /\ ColumnCount(h.x, c, x_mat[r][c]) = ColumnCount(x_mat, c, x_mat[r][c])
              /\ ColumnCount(h.x, c, h.x[r][c]) = ColumnCount(x_mat, c, h.x[r][c])
        /\ h.y = y_mat
        /\ h.dist = dist
        /\ h.local_truth = perm.local_truth

\* C14: every iteration of the permutation loop calls the statistic on x_mat
\* with only its rows reordered by a bijection, with y_mat, the weights and
\* local_truth as they are; and no step of the tester changes x_mat, y_mat,
\* the weights or local_truth
C14_OnlyRowsOfXShuffled ==
    /\ [](\A k \in 1..Len(perm.hist) : PassedPermuted(k))
    /\ [][/\ x_mat' = x_mat
          /\ y_mat' = y_mat
          /\ dist' = dist
          /\ perm'.local_truth = perm.local_truth]_vars

\* a run of MaxPerm permutations has returned, and one of its permutations
\* moved a row of x_mat to a spot where x_mat holds other values
C14_Witness ==
    /\ perm.pc = "done" /\ perm.n_perm = MaxPerm
    /\ Len(perm.hist) = MaxPerm
    /\ \E k \in 1..Len(perm.hist) : perm.hist[k].x # x_mat

(* ------------------------------- C12 ---------------------------------- *)

\* the number the simplification is to give a label of two sign letters
SimpleValue(label) ==
    IF label = "PP" THEN 1
    ELSE IF label \in {"PN", "NP"} THEN -1
    ELSE 0

\* C12: _simplify_cats turns every label of _categorize into a number: PP
\* into 1, PN and NP into -1, NN and every label with a Z into 0
C12_SimplifyMapsEveryLabel ==
    cat.pc = "simplified" =>
        \A r \in 1..Len(cat.cats) : \A c \in 1..Len(cat.cats[1]) :
            /\ cat.simple[r][c].kind = "number"
            /\ cat.simple[r][c].number = SimpleValue(cat.cats[r][c])

(* ------------------------------- C13 ---------------------------------- *)

\* column c of matrix a has no negative value and two different values
NonNegativeVarying(a, c) ==
    /\ \A r \in 1..Len(a) : a[r][c] >= 0
    /\ \E r \in 1..Len(a) : \E q \in 1..Len(a) : a[r][c] # a[q][c]

\* column c of the letters holds letter l
HasLetter(chars, c, l) == \E r \in 1..Len(chars) : chars[r][c] = l

\* C13: every column of a matrix given to _encode_as_char that has no
\* negative value and is not constant gets an N and a P, whatever the other
\* columns hold
C13_NonNegativeColumnGetsN ==
    /\ cat.x_cats # <<>> =>
          \A c \in 1..Len(x_mat[1]) :
              NonNegativeVarying(x_mat, c) =>
                  HasLetter(cat.x_cats, c, "N") /\ HasLetter(cat.x_cats, c, "P")
    /\ cat.y_cats # <<>> =>
          \A c \in 1..Len(y_mat[1]) :
              NonNegativeVarying(y_mat, c) =>
                  HasLetter(cat.y_cats, c, "N") /\ HasLetter(cat.y_cats, c, "P")

====
